---- MODULE Spec2Model ----
(***************************************************************************)
(* A model of goregen: the compiler from a regexp/syntax AST to a tree of  *)
(* string generators (regen.go), the character class index                 *)
(* (util/char_class.go), the executors (executors.go) and the random       *)
(* sources (xorshift source, locked source).                               *)
(*                                                                         *)
(* Strings are sequences of runes (integers).  A random source is seen     *)
(* through the values Int31() returns: math/rand derives Int31, Int31n and *)
(* Intn from the top 31 bits of the source's Int63().                      *)
(***************************************************************************)
EXTENDS Integers, Sequences, FiniteSets, TLC

VARIABLES
    pattern,    \* the AST syntax.Parse returned for the pattern, or ParseError
    flags,      \* GeneratorArgs.Flags, a set of syntax.Flags bits
    phase,      \* "new" | "ready" | "error" | "panic" : NewGenerator's outcome
    generator,  \* the compiled generator tree, Nil before/without one
    err,        \* the error NewGenerator returned, "" for none
    result,     \* what the last Generate() call did, Nil before the first
    \* forkJoinExecutor.Execute
    generators, \* the list of generators Execute is called with
    results,    \* the slots results[i]
    waiter,     \* the WaitGroup's counter
    tasks,      \* tasks[i]: where the goroutine spawned for generators[i] is
    fjpc,       \* where Execute itself is, and its loop variable i
    order,      \* the indices in the order in which their slots were written
    returned,   \* the string Execute returned
    \* util.CharClass
    ccRunes,    \* the slice of runes ParseCharClass is called with
    ccClass,    \* what ParseCharClass did with it, Nil before the call
    ccAt,       \* the last GetRuneAt call: its index and what it did
    \* one generator and its xorshift source, used by several goroutines
    wordBits,   \* the build's word size: a uint64 is stored in 64/wordBits steps
    state,      \* xorShift64Source.state, the set of the bits that are 1
    conc,       \* conc[t]: where goroutine t is in its Generate() call
    \* an executor and the source it prepared
    executor,   \* GeneratorArgs.Executor: "serial" | "forkJoin"
    rng,        \* the source PrepareSource returned, Nil before the call
    lk,         \* lockedSource.lk: the goroutine that holds it, 0 for none
    \* one caller of a xorshift source
    srcSeed,    \* the seed the source was constructed or last seeded with
    drawn,      \* the values Int63() has returned, each the set of its 1 bits
    \* generators made one after the other from the same arguments
    runs        \* what the Execute calls of the earlier generators returned

regenVars == <<pattern, flags, phase, generator, err, result>>
fjVars == <<generators, results, waiter, tasks, fjpc, order, returned>>
ccVars == <<ccRunes, ccClass, ccAt>>
srcVars == <<wordBits, state, conc>>
execVars == <<executor, rng, lk>>
seqVars == <<srcSeed, drawn, runs>>
vars == <<regenVars, fjVars, ccVars, srcVars, execVars, seqVars>>

Nil == [kind |-> "nil"]

(***************************************************************************)
(* Bounds of the model.                                                    *)
(***************************************************************************)
\* most Int31() values one Generate() call may consume
MaxDraws == 3

(***************************************************************************)
(* Program constants.                                                      *)
(***************************************************************************)
MaxUpperBound == 4096
\* unicode.MaxRune and utf8.RuneError, used by the rune-to-string conversion
MaxRune == 1114111
RuneError == 65533
\* the largest int32, math/rand's 1<<31 - 1
MaxInt31 == 2147483647

(***************************************************************************)
(* The values the source's Int31() is drawn from: both ends of the int32   *)
(* range, the newline, and the values that select the smallest and the     *)
(* largest repeat count.                                                   *)
(***************************************************************************)
DrawValues == {0, 1, 10, MaxUpperBound, MaxInt31}

(***************************************************************************)
(* regexp/syntax.Regexp: Op, Rune, Sub, Min, Max.                          *)
(***************************************************************************)
Re(op, rune, sub, min, max) ==
    [Op |-> op, Rune |-> rune, Sub |-> sub, Min |-> min, Max |-> max]

Leaf(op)        == Re(op, <<>>, <<>>, 0, 0)
Lit(runes)      == Re("Literal", runes, <<>>, 0, 0)
Class(runes)    == Re("CharClass", runes, <<>>, 0, 0)
Unary(op, sub)  == Re(op, <<>>, <<sub>>, 0, 0)
Nary(op, subs)  == Re(op, <<>>, subs, 0, 0)
Rep(sub, mn, mx) == Re("Repeat", <<>>, <<sub>>, mn, mx)

(***************************************************************************)
(* syntax.Regexp.Simplify, as newGenerator calls it on every node:         *)
(* counted repetitions are rewritten into concatenations of x, x?, star    *)
(* and plus; x{0} is the empty match.  The NonGreedy flag is not modelled. *)
(***************************************************************************)
simplify1(op, sub) ==
    IF sub.Op = "EmptyMatch" THEN sub
    ELSE IF op = sub.Op THEN sub
    ELSE Unary(op, sub)

RECURSIVE SimplifySuffix(_, _)
\* (x(x(x)?)?)? with k nested x?
SimplifySuffix(sub, k) ==
    IF k <= 1 THEN simplify1("Quest", sub)
    ELSE simplify1("Quest", Nary("Concat", <<sub, SimplifySuffix(sub, k - 1)>>))

RECURSIVE Simplify(_)
Simplify(re) ==
    CASE re.Op \in {"Capture", "Concat", "Alternate"} ->
            [re EXCEPT !.Sub = [i \in DOMAIN re.Sub |-> Simplify(re.Sub[i])]]
      [] re.Op \in {"Star", "Plus", "Quest"} ->
            simplify1(re.Op, Simplify(re.Sub[1]))
      [] re.Op = "Repeat" ->
            IF re.Min = 0 /\ re.Max = 0 THEN Leaf("EmptyMatch")
            ELSE LET sub == Simplify(re.Sub[1])
                     copies(n) == [i \in 1..n |-> sub]
                 IN  IF re.Max = -1
                     THEN IF re.Min = 0 THEN simplify1("Star", sub)
                          ELSE IF re.Min = 1 THEN simplify1("Plus", sub)
                          ELSE Nary("Concat",
                                    Append(copies(re.Min - 1), simplify1("Plus", sub)))
                     ELSE IF re.Min = 1 /\ re.Max = 1 THEN sub
                     ELSE IF re.Max > re.Min
                          THEN LET suffix == SimplifySuffix(sub, re.Max - re.Min)
                               IN  IF re.Min > 0
                                   THEN Nary("Concat", Append(copies(re.Min), suffix))
                                   ELSE suffix
                     ELSE IF re.Min > 0 THEN Nary("Concat", copies(re.Min))
                     ELSE Leaf("NoMatch")
      [] OTHER -> re

(***************************************************************************)
(* util/char_class.go                                                      *)
(***************************************************************************)
\* the outcome of a call that may panic: ok with a value, or the panic
Ok(v)      == [ok |-> TRUE, v |-> v, panic |-> ""]
Panic(msg) == [ok |-> FALSE, v |-> Nil, panic |-> msg]

\* NewCharClassRange without its check of the size
NewCharClassRangeAnySize(start, end) ==
    IF start < 1
    THEN Panic("char class range cannot contain runes less than 1")
    ELSE Ok([Start |-> start, Size |-> end - start + 1])

NewCharClassRange(start, end) ==
    IF start < 1
    THEN Panic("char class range cannot contain runes less than 1")
    ELSE LET size == end - start + 1
         IN  IF size < 1
             THEN Panic("char class range size must be at least 1")
             ELSE Ok([Start |-> start, Size |-> size])

RECURSIVE SumSizes(_, _)
\* totalSize += r.Size over the first n ranges
SumSizes(ranges, n) ==
    IF n = 0 THEN 0 ELSE SumSizes(ranges, n - 1) + ranges[n].Size

\* ParseCharClass before the ranges went through NewCharClassRange: a pair is
\* stored as it comes, a start of 0 included, and nothing panics
ParseCharClassEarlier(runes) ==
    LET numRanges == Len(runes) \div 2
        ranges    == [i \in 1..numRanges |->
                         [Start |-> runes[2 * i - 1],
                          Size  |-> runes[2 * i] - runes[2 * i - 1] + 1]]
    IN  Ok([Ranges |-> ranges, TotalSize |-> SumSizes(ranges, numRanges)])

ParseCharClass(runes) ==
    LET numRanges == Len(runes) \div 2
        start(i)  == IF runes[2 * i - 1] = 0 THEN 1 ELSE runes[2 * i - 1]
        end(i)    == runes[2 * i]
        made      == [i \in 1..numRanges |-> NewCharClassRange(start(i), end(i))]
        bad       == {i \in 1..numRanges : ~made[i].ok}
    IN  IF bad # {}
        THEN Panic(made[CHOOSE i \in bad : \A j \in bad : i <= j].panic)
        ELSE LET ranges == [i \in 1..numRanges |-> made[i].v]
             IN  Ok([Ranges |-> ranges, TotalSize |-> SumSizes(ranges, numRanges)])

RECURSIVE GetRuneAtFrom(_, _, _)
\* the loop of GetRuneAt from range k on, i already reduced by the ranges before k
GetRuneAtFrom(class, k, i) ==
    IF k > Len(class.Ranges) THEN Panic("index out of bounds")
    ELSE IF i < class.Ranges[k].Size THEN Ok(class.Ranges[k].Start + i)
    ELSE GetRuneAtFrom(class, k + 1, i - class.Ranges[k].Size)

RECURSIVE GetRuneAtKeepingIndex(_, _, _)
\* the loop of GetRuneAt without "i -= r.Size"
GetRuneAtKeepingIndex(class, k, i) ==
    IF k > Len(class.Ranges) THEN Panic("index out of bounds")
    ELSE IF i < class.Ranges[k].Size THEN Ok(class.Ranges[k].Start + i)
    ELSE GetRuneAtKeepingIndex(class, k + 1, i)

GetRuneAtUnreduced(class, i) == GetRuneAtKeepingIndex(class, 1, i)

GetRuneAt(class, i) == GetRuneAtFrom(class, 1, i)

(***************************************************************************)
(* util.RunesToString and util.Abs (their files are not part of the        *)
(* sources at hand): a rune that is no valid code point is written as      *)
(* utf8.RuneError, every other rune as itself.                             *)
(***************************************************************************)
ValidRune(r) == r >= 0 /\ r <= MaxRune /\ ~(r >= 55296 /\ r <= 57343)

RunesToString(runes) ==
    [i \in DOMAIN runes |-> IF ValidRune(runes[i]) THEN runes[i] ELSE RuneError]

Abs(x) == IF x < 0 THEN -x ELSE x

(***************************************************************************)
(* math/rand.Rand over a source whose successive Int31() values are ds.    *)
(* A call returns [st, v, ds]: st is "ok", "panic" (invalid argument) or   *)
(* "more" (the call needs a value beyond the end of ds).                   *)
(***************************************************************************)
RandOk(v, ds) == [st |-> "ok", v |-> v, ds |-> ds]
RandStop(st)  == [st |-> st, v |-> 0, ds |-> <<>>]

Int31(ds) == IF ds = <<>> THEN RandStop("more") ELSE RandOk(Head(ds), Tail(ds))

IsPowerOfTwo(n) == \E k \in 0..30 : n = 2 ^ k

RECURSIVE Int31nRetry(_, _, _)
\* v := r.Int31(); for v > max { v = r.Int31() }; return v % n
Int31nRetry(n, max, ds) ==
    LET d == Int31(ds)
    IN  IF d.st # "ok" THEN d
        ELSE IF d.v > max THEN Int31nRetry(n, max, d.ds)
        ELSE RandOk(d.v % n, d.ds)

Int31n(n, ds) ==
    IF n <= 0 THEN RandStop("panic")
    ELSE IF IsPowerOfTwo(n)
         \* r.Int31() & (n-1): the low bits, v % n for a power of two
         THEN LET d == Int31(ds)
              IN  IF d.st # "ok" THEN d ELSE RandOk(d.v % n, d.ds)
         \* max = (1<<31) - 1 - (1<<31) % n
         ELSE Int31nRetry(n, MaxInt31 - (((MaxInt31 % n) + 1) % n), ds)

\* every n of the model is at most 1<<31 - 1, so Intn is Int31n
Intn(n, ds) == IF n <= 0 THEN RandStop("panic") ELSE Int31n(n, ds)

(***************************************************************************)
(* regen.go: the compiler.  A factory returns [gen, err, panic]: the       *)
(* generator and no error, or an error and no generator, or it panics.     *)
(* A generator is the closure the factory returns, as a record of the      *)
(* variables the closure captures.                                         *)
(***************************************************************************)
GenOk(g)      == [gen |-> g, err |-> "", panic |-> ""]
GenErr(e)     == [gen |-> Nil, err |-> e, panic |-> ""]
GenPanic(msg) == [gen |-> Nil, err |-> "", panic |-> msg]
Compiled(c)   == c.err = "" /\ c.panic = ""

\* the factory table without its six noop entries
generatorFactoriesWithoutNoop ==
    {"EmptyMatch", "Literal", "AnyCharNotNL", "AnyChar", "Quest", "Star", "Plus",
     "Repeat", "CharClass", "Concat", "Alternate", "Capture"}

\* the factory table with one more key, OpNoMatch, which newGenerator then
\* compiles as it compiles the other keys without a factory of their own
generatorFactoriesWithNoMatch ==
    {"NoMatch", "EmptyMatch", "Literal", "AnyCharNotNL", "AnyChar", "Quest",
     "Star", "Plus", "Repeat", "CharClass", "Concat", "Alternate", "Capture",
     "BeginLine", "EndLine", "BeginText", "EndText", "WordBoundary",
     "NoWordBoundary"}

\* the keys of the generatorFactories map built in init()
generatorFactories ==
    {"EmptyMatch", "Literal", "AnyCharNotNL", "AnyChar", "Quest", "Star", "Plus",
     "Repeat", "CharClass", "Concat", "Alternate", "Capture", "BeginLine",
     "EndLine", "BeginText", "EndText", "WordBoundary", "NoWordBoundary"}

enforceOp(r, op) == r.Op = op

enforceSingleSub(r) == Len(r.Sub) = 1

noop(r) == GenOk([kind |-> "noop"])

opEmptyMatch(r) ==
    IF ~enforceOp(r, "EmptyMatch") THEN GenPanic("invalid Op")
    ELSE GenOk([kind |-> "emptyMatch"])

opLiteral(r) ==
    IF ~enforceOp(r, "Literal") THEN GenPanic("invalid Op")
    ELSE GenOk([kind |-> "literal", runes |-> r.Rune])

opAnyChar(r) ==
    IF ~enforceOp(r, "AnyChar") THEN GenPanic("invalid Op")
    ELSE GenOk([kind |-> "anyChar"])

opAnyCharNotNl(r) ==
    IF ~enforceOp(r, "AnyCharNotNL") THEN GenPanic("invalid Op")
    ELSE GenOk([kind |-> "anyCharNotNl"])

opCharClass(r) ==
    IF ~enforceOp(r, "CharClass") THEN GenPanic("invalid Op")
    ELSE LET class == ParseCharClass(r.Rune)
         IN  IF class.ok THEN GenOk([kind |-> "charClass", class |-> class.v])
             ELSE GenPanic(class.panic)

RECURSIVE newGenerator(_)

newGenerators(rs) ==
    LET made == [i \in DOMAIN rs |-> newGenerator(rs[i])]
        bad  == {i \in DOMAIN rs : ~Compiled(made[i])}
    IN  IF bad # {}
        THEN LET first == made[CHOOSE i \in bad : \A j \in bad : i <= j]
             IN  [gens |-> <<>>, err |-> first.err, panic |-> first.panic]
        ELSE [gens |-> [i \in DOMAIN rs |-> made[i].gen], err |-> "", panic |-> ""]

opConcat(r) ==
    IF ~enforceOp(r, "Concat") THEN GenPanic("invalid Op")
    ELSE LET sub == newGenerators(r.Sub)
         IN  IF sub.panic # "" THEN GenPanic(sub.panic)
             ELSE IF sub.err # "" THEN GenErr(sub.err)
             ELSE GenOk([kind |-> "concat", generators |-> sub.gens])

opAlternate(r) ==
    IF ~enforceOp(r, "Alternate") THEN GenPanic("invalid Op")
    ELSE LET sub == newGenerators(r.Sub)
         IN  IF sub.panic # "" THEN GenPanic(sub.panic)
             ELSE IF sub.err # "" THEN GenErr(sub.err)
             ELSE GenOk([kind |-> "alternate", generators |-> sub.gens,
                         numGens |-> Len(sub.gens)])

\* opCapture taking the group for a zero-width node: it compiles to noop
opCaptureAsNoop(r) == GenOk([kind |-> "noop"])

opCapture(r) ==
    IF ~enforceOp(r, "Capture") THEN GenPanic("invalid Op")
    ELSE IF ~enforceSingleSub(r) THEN GenErr("expected 1 sub-expression")
    ELSE newGenerator(r.Sub[1])

\* createRepeatingGenerator without "if max < 0 { max = MaxUpperBound }"
createRepeatingGeneratorUnresolved(r, min, max) ==
    IF ~enforceSingleSub(r) THEN GenErr("expected 1 sub-expression")
    ELSE LET sub == newGenerator(r.Sub[1])
         IN  IF ~Compiled(sub) THEN sub
             ELSE GenOk([kind |-> "repeat", generator |-> sub.gen, min |-> min,
                         max |-> max])

createRepeatingGenerator(r, min, max) ==
    IF ~enforceSingleSub(r) THEN GenErr("expected 1 sub-expression")
    ELSE LET sub == newGenerator(r.Sub[1])
         IN  IF ~Compiled(sub) THEN sub
             ELSE GenOk([kind |-> "repeat", generator |-> sub.gen, min |-> min,
                         max |-> IF max < 0 THEN MaxUpperBound ELSE max])

opQuest(r) ==
    IF ~enforceOp(r, "Quest") THEN GenPanic("invalid Op")
    ELSE createRepeatingGenerator(r, 0, 1)

opStar(r) ==
    IF ~enforceOp(r, "Star") THEN GenPanic("invalid Op")
    ELSE createRepeatingGenerator(r, 0, -1)

opPlus(r) ==
    IF ~enforceOp(r, "Plus") THEN GenPanic("invalid Op")
    ELSE createRepeatingGenerator(r, 1, -1)

opRepeat(r) ==
    IF ~enforceOp(r, "Repeat") THEN GenPanic("invalid Op")
    ELSE createRepeatingGenerator(r, r.Min, r.Max)

newGenerator(r) ==
    LET simplified == Simplify(r)
    IN  IF simplified.Op \notin generatorFactories
        THEN GenErr("invalid generator pattern")
        ELSE CASE simplified.Op = "EmptyMatch"   -> opEmptyMatch(simplified)
               [] simplified.Op = "Literal"      -> opLiteral(simplified)
               [] simplified.Op = "AnyCharNotNL" -> opAnyCharNotNl(simplified)
               [] simplified.Op = "AnyChar"      -> opAnyChar(simplified)
               [] simplified.Op = "Quest"        -> opQuest(simplified)
               [] simplified.Op = "Star"         -> opStar(simplified)
               [] simplified.Op = "Plus"         -> opPlus(simplified)
               [] simplified.Op = "Repeat"       -> opRepeat(simplified)
               [] simplified.Op = "CharClass"    -> opCharClass(simplified)
               [] simplified.Op = "Concat"       -> opConcat(simplified)
               [] simplified.Op = "Alternate"    -> opAlternate(simplified)
               [] simplified.Op = "Capture"      -> opCapture(simplified)
               [] OTHER                          -> noop(simplified)

(***************************************************************************)
(* regen.go: the closures.  Generate(g, ds) is g.Generate() on a source    *)
(* whose next Int31() values are ds.  It returns [st, out, ds, log]: st as *)
(* for the rand calls, out the string, ds the values left, and log one     *)
(* record for every char class, alternate and repeat closure that ran.     *)
(***************************************************************************)
Ret(out, ds, log) == [st |-> "ok", out |-> out, ds |-> ds, log |-> log]
Stop(st, log)     == [st |-> st, out |-> <<>>, ds |-> <<>>, log |-> log]

RECURSIVE FormatUint(_)
\* the decimal digits of n >= 0
FormatUint(n) ==
    IF n < 10 THEN <<48 + n>> ELSE Append(FormatUint(n \div 10), 48 + (n % 10))

\* strconv.FormatInt(int64(n), 10)
FormatInt(n) == IF n < 0 THEN <<45>> \o FormatUint(-n) ELSE FormatUint(n)

\* the tests' generator: its closure returns strconv.FormatInt(int64(n), 10)
NewMockGenerator(n) == [kind |-> "mock", n |-> n]

RECURSIVE Generate(_, _)

RECURSIVE ConcatFrom(_, _, _)
\* for _, generator := range generators { buffer.WriteString(generator.Generate()) }
ConcatFrom(gens, i, acc) ==
    IF i > Len(gens) THEN acc
    ELSE LET r == Generate(gens[i], acc.ds)
         IN  IF r.st # "ok" THEN Stop(r.st, acc.log \o r.log)
             ELSE ConcatFrom(gens, i + 1,
                             Ret(acc.out \o r.out, r.ds, acc.log \o r.log))

RECURSIVE RepeatTimes(_, _, _)
\* for ; n > 0; n-- { buffer.WriteString(generator.Generate()) }
\* k iterations are the first k \div 2 followed by the rest; acc.outs collects
\* what each call of the child returned
RepeatTimes(g, k, acc) ==
    IF acc.st # "ok" \/ k <= 0 THEN acc
    ELSE IF k = 1
         THEN LET r == Generate(g, acc.ds)
              IN  [st |-> r.st, out |-> acc.out \o r.out, ds |-> r.ds,
                   log |-> acc.log \o r.log, outs |-> Append(acc.outs, r.out)]
         ELSE RepeatTimes(g, k - (k \div 2), RepeatTimes(g, k \div 2, acc))

\* return util.RunesToString(rune(args.Rng.Int31()))
GenerateAnyChar(g, ds) ==
    LET d == Int31(ds)
    IN  IF d.st # "ok" THEN Stop(d.st, <<>>)
        ELSE Ret(RunesToString(<<d.v>>), d.ds, <<>>)

\* a closure for "." that draws again when the source returns the newline
GenerateAnyCharNotNlFiltered(g, ds) ==
    LET d == Int31(ds)
    IN  IF d.st # "ok" THEN Stop(d.st, <<>>)
        ELSE IF d.v = 10
             THEN LET e == Int31(d.ds)
                  IN  IF e.st # "ok" THEN Stop(e.st, <<>>)
                      ELSE Ret(RunesToString(<<e.v>>), e.ds, <<>>)
             ELSE Ret(RunesToString(<<d.v>>), d.ds, <<>>)

GenerateAnyCharNotNl(g, ds) ==
    LET d == Int31(ds)
    IN  IF d.st # "ok" THEN Stop(d.st, <<>>)
        ELSE Ret(RunesToString(<<d.v>>), d.ds, <<>>)

GenerateCharClass(g, ds) ==
    LET d == Int31n(g.class.TotalSize, ds)
    IN  IF d.st # "ok" THEN Stop(d.st, <<>>)
        ELSE LET i == Abs(d.v)
                 r == GetRuneAt(g.class, i)
             IN  IF ~r.ok THEN Stop("panic", <<>>)
                 ELSE Ret(RunesToString(<<r.v>>), d.ds,
                          <<[node |-> "charClass", i |-> i, rune |-> r.v]>>)

\* the alternate closure calling every generator of its list
\* and returning what generators[i] gave
GenerateAlternateEager(g, ds) ==
    LET d == Intn(g.numGens, ds)
    IN  IF d.st # "ok" THEN Stop(d.st, <<>>)
        ELSE LET all == ConcatFrom(g.generators, 1, Ret(<<>>, d.ds, <<>>))
                 r   == Generate(g.generators[d.v + 1], d.ds)
                 ev  == [node |-> "alternate", numGens |-> g.numGens, i |-> d.v,
                         st |-> r.st, out |-> r.out]
             IN  IF all.st # "ok" THEN Stop(all.st, <<ev>> \o all.log)
                 ELSE Ret(r.out, all.ds, <<ev>> \o all.log)

GenerateAlternate(g, ds) ==
    LET d == Intn(g.numGens, ds)
    IN  IF d.st # "ok" THEN Stop(d.st, <<>>)
        ELSE LET r == Generate(g.generators[d.v + 1], d.ds)
                 ev == [node |-> "alternate", numGens |-> g.numGens, i |-> d.v,
                        st |-> r.st, out |-> r.out]
             IN  [r EXCEPT !.log = <<ev>> \o r.log]

\* the repeat closure with the loop "for ; n >= 0; n--"
GenerateRepeatOnceMore(g, ds) ==
    LET d == Intn(g.max - g.min + 1, ds)
    IN  IF d.st # "ok" THEN Stop(d.st, <<>>)
        ELSE LET n    == g.min + d.v
                 loop == RepeatTimes(g.generator, n + 1,
                            [st |-> "ok", out |-> <<>>, ds |-> d.ds, log |-> <<>>,
                             outs |-> <<>>])
                 ev   == [node |-> "repeat", min |-> g.min, max |-> g.max,
                          drawn |-> d.v, n |-> n, outs |-> loop.outs,
                          out |-> loop.out]
             IN  IF loop.st # "ok" THEN Stop(loop.st, loop.log)
                 ELSE Ret(loop.out, loop.ds, <<ev>> \o loop.log)

\* the repeat closure drawing "min + args.Rng.Intn(max-min)", a half-open interval
GenerateRepeatHalfOpen(g, ds) ==
    LET d == Intn(g.max - g.min, ds)
    IN  IF d.st # "ok" THEN Stop(d.st, <<>>)
        ELSE LET n    == g.min + d.v
                 loop == RepeatTimes(g.generator, n,
                            [st |-> "ok", out |-> <<>>, ds |-> d.ds, log |-> <<>>,
                             outs |-> <<>>])
                 ev   == [node |-> "repeat", min |-> g.min, max |-> g.max,
                          drawn |-> d.v, n |-> n, outs |-> loop.outs,
                          out |-> loop.out]
             IN  IF loop.st # "ok" THEN Stop(loop.st, loop.log)
                 ELSE Ret(loop.out, loop.ds, <<ev>> \o loop.log)

GenerateRepeat(g, ds) ==
    LET d == Intn(g.max - g.min + 1, ds)
    IN  IF d.st # "ok" THEN Stop(d.st, <<>>)
        ELSE LET n    == g.min + d.v
                 loop == RepeatTimes(g.generator, n,
                            [st |-> "ok", out |-> <<>>, ds |-> d.ds, log |-> <<>>,
                             outs |-> <<>>])
                 ev   == [node |-> "repeat", min |-> g.min, max |-> g.max,
                          drawn |-> d.v, n |-> n, outs |-> loop.outs,
                          out |-> loop.out]
             IN  IF loop.st # "ok" THEN Stop(loop.st, loop.log)
                 ELSE Ret(loop.out, loop.ds, <<ev>> \o loop.log)

Generate(g, ds) ==
    CASE g.kind \in {"noop", "emptyMatch"} -> Ret(<<>>, ds, <<>>)
      [] g.kind = "literal" -> Ret(RunesToString(g.runes), ds, <<>>)
      [] g.kind = "anyChar" -> GenerateAnyChar(g, ds)
      [] g.kind = "anyCharNotNl" -> GenerateAnyCharNotNl(g, ds)
      [] g.kind = "charClass" -> GenerateCharClass(g, ds)
      [] g.kind = "concat" -> ConcatFrom(g.generators, 1, Ret(<<>>, ds, <<>>))
      [] g.kind = "alternate" -> GenerateAlternate(g, ds)
      [] g.kind = "repeat" -> GenerateRepeat(g, ds)
      [] g.kind = "mock" -> Ret(FormatInt(g.n), ds, <<>>)

(***************************************************************************)
(* The patterns: the ASTs syntax.Parse returns for them.                   *)
(***************************************************************************)
NL == 10
LitA   == Lit(<<97>>)
LitABC == Lit(<<97, 98, 99>>)
\* [ab]
ClassAB == Class(<<97, 98>>)
\* [^a], parsed without ClassNL: the newline is excluded too
ClassNotA == Class(<<0, 9, 11, 96, 98, MaxRune>>)
\* [^\x00-\x{10FFFF}]: the class no rune is in
ClassNone == Class(<<>>)

\* syntax.MatchNL, syntax.Perl and syntax.POSIX as sets of flag bits
MatchNL == {"ClassNL", "DotNL"}
Perl    == {"ClassNL", "OneLine", "PerlX", "UnicodeGroups"}
POSIX   == {}
FlagSets == {POSIX, MatchNL, Perl, {"UnicodeGroups"}, {"UnicodeGroups", "PerlX"}}

\* "." is OpAnyChar when DotNL is set and OpAnyCharNotNL when it is not
Dot(fl) == IF "DotNL" \in fl THEN Leaf("AnyChar") ELSE Leaf("AnyCharNotNL")

Atoms(fl) == {LitA, ClassAB, Dot(fl)}

Leaves(fl) ==
    Atoms(fl) \cup
    {Leaf("EmptyMatch"), LitABC, ClassNotA, ClassNone, Leaf("BeginLine"),
     Leaf("EndLine"), Leaf("BeginText"), Leaf("EndText"), Leaf("WordBoundary"),
     Leaf("NoWordBoundary")}

Quantified(x) ==
    {Unary("Capture", x), Unary("Quest", x), Unary("Star", x), Unary("Plus", x),
     Rep(x, 0, 0), Rep(x, 0, 3), Rep(x, 1, 2), Rep(x, 2, 2), Rep(x, 2, -1)}

\* \d and \d{1,2}, which need the PerlX flag
ClassDigit == Class(<<48, 57>>)
PerlPatterns == {ClassDigit, Rep(ClassDigit, 1, 2), Leaf("EmptyMatch"), LitA}

Patterns(fl) ==
    IF "PerlX" \in fl THEN PerlPatterns ELSE
    Leaves(fl)
    \cup UNION {Quantified(x) : x \in Atoms(fl) \cup {LitABC, ClassNone}}
    \cup {Nary(op, <<x, y>>) : op \in {"Concat", "Alternate"},
                               x \in Atoms(fl), y \in Atoms(fl)}
    \cup { \* ^abc$   $abc^   a^b$c
           Nary("Concat", <<Leaf("BeginLine"), LitABC, Leaf("EndLine")>>),
           Nary("Concat", <<Leaf("EndLine"), LitABC, Leaf("BeginLine")>>),
           Nary("Concat", <<LitA, Leaf("BeginLine"), Lit(<<98>>),
                            Leaf("EndLine"), Lit(<<99>>)>>),
           \* (abc)?   ()   abc|[ab]|.
           Unary("Quest", Unary("Capture", LitABC)),
           Unary("Capture", Leaf("EmptyMatch")),
           Nary("Alternate", <<LitABC, ClassAB, Dot(fl)>>),
           \* a[ab]*   ([ab]{1,2})+
           Nary("Concat", <<LitA, Unary("Star", ClassAB)>>),
           Unary("Plus", Unary("Capture", Rep(ClassAB, 1, 2))) }

ParseError == [Op |-> "ParseError"]

(***************************************************************************)
(* NewGenerator and Generate.                                              *)
(***************************************************************************)
\* no executor run, no character class and no goroutine at hand
NoExecute ==
    /\ generators = <<>> /\ results = <<>> /\ waiter = 0 /\ tasks = <<>>
    /\ fjpc = [at |-> "idle", i |-> 0] /\ order = <<>> /\ returned = <<>>

NoCharClass == ccRunes = <<>> /\ ccClass = Nil /\ ccAt = Nil

NoGoroutines == wordBits = 64 /\ state = {} /\ conc = <<>>

NoPrepare == executor = "" /\ rng = Nil /\ lk = 0

NoCaller == srcSeed = {} /\ drawn = <<>> /\ runs = <<>>

Init ==
    /\ flags \in FlagSets
    /\ pattern \in Patterns(flags) \cup {ParseError}
    /\ phase = "new"
    /\ generator = Nil
    /\ err = ""
    /\ result = Nil
    /\ NoExecute /\ NoCharClass /\ NoGoroutines /\ NoPrepare /\ NoCaller

\* the check asking that no bit of syntax.Perl is set, where the code asks
\* that not all of them are
UnicodeGroupsWithNoPerlBit(fl) == "UnicodeGroups" \in fl /\ fl \cap Perl = {}

\* (args.Flags&syntax.UnicodeGroups) == syntax.UnicodeGroups &&
\* (args.Flags&syntax.Perl) != syntax.Perl
UnicodeGroupsWithoutPerl(fl) == "UnicodeGroups" \in fl /\ ~(Perl \subseteq fl)

NewGenerator ==
    /\ phase = "new"
    /\ LET c == IF UnicodeGroupsWithoutPerl(flags)
                THEN GenErr("UnicodeGroups not supported")
                ELSE IF pattern = ParseError THEN GenErr("parse error")
                ELSE newGenerator(pattern)
       IN  /\ phase' = IF c.panic # "" THEN "panic"
                       ELSE IF c.err # "" THEN "error" ELSE "ready"
           /\ generator' = c.gen
           /\ err' = c.err
    /\ UNCHANGED <<pattern, flags, result, fjVars, ccVars, srcVars, execVars, seqVars>>

RECURSIVE Runs(_, _)
\* every way g.Generate() can run: the source's values are chosen one at a
\* time, for as long as the call asks for one more
Runs(g, ds) ==
    LET r == Generate(g, ds)
    IN  IF r.st = "more"
        THEN IF Len(ds) >= MaxDraws THEN {}
             ELSE UNION {Runs(g, Append(ds, d)) : d \in DrawValues}
        ELSE {[st |-> r.st, out |-> r.out, draws |-> ds, log |-> r.log]}

\* a Generate() whose char-class closure counts the class down as it draws
CallGenerateShrinking ==
    /\ phase = "ready"
    /\ \E r \in Runs(generator, <<>>) :
          /\ result' = r
          /\ phase' = IF r.st = "panic" THEN "panic" ELSE phase
    /\ generator' = IF generator.kind = "charClass"
                    THEN [generator EXCEPT !.class.TotalSize = @ - 1]
                    ELSE generator
    /\ UNCHANGED <<pattern, flags, err, fjVars, ccVars, srcVars, execVars, seqVars>>

CallGenerate ==
    /\ phase = "ready"
    /\ \E r \in Runs(generator, <<>>) :
          /\ result' = r
          /\ phase' = IF r.st = "panic" THEN "panic" ELSE phase
    /\ UNCHANGED <<pattern, flags, generator, err, fjVars, ccVars, srcVars, execVars, seqVars>>

Next == NewGenerator \/ CallGenerate

Spec == Init /\ [][Next]_vars

(***************************************************************************)
(* newGenerator on syntax trees built by hand.  syntax.Parse returns no    *)
(* node of an op outside the factory table; a caller of newGenerator can   *)
(* pass one: OpNoMatch, or a repetition Simplify rewrites to OpNoMatch     *)
(* (min 0 and max below -1).                                               *)
(***************************************************************************)
NoMatch == Leaf("NoMatch")

UnsupportedNodes == {NoMatch, Rep(LitA, 0, -2)}

ASTs ==
    LET nodes == {LitA, ClassAB} \cup UnsupportedNodes
    IN  nodes
        \cup UNION {Quantified(x) : x \in nodes}
        \cup {Nary(op, <<x, y>>) : op \in {"Concat", "Alternate"},
                                   x \in nodes, y \in nodes}
        \cup {Nary("Concat", <<LitA, Unary("Capture",
                                 Nary("Alternate", <<ClassAB, NoMatch>>))>>),
              Unary("Star", Unary("Capture", Rep(NoMatch, 0, 0))),
              Nary("Alternate", <<LitA, Rep(Unary("Plus", NoMatch), 0, 0)>>),
              Unary("Plus", Nary("Concat", <<Rep(NoMatch, 1, 2), ClassAB>>)),
              \* alternations of one and of three branches
              Nary("Alternate", <<ClassAB>>),
              Nary("Alternate", <<LitA, ClassAB, Unary("Quest", LitABC)>>)}

InitAST ==
    /\ flags = POSIX
    /\ pattern \in ASTs
    /\ phase = "new"
    /\ generator = Nil
    /\ err = ""
    /\ result = Nil
    /\ NoExecute /\ NoCharClass /\ NoGoroutines /\ NoPrepare /\ NoCaller

SpecAST == InitAST /\ [][Next]_vars

(***************************************************************************)
(* The executors.  forkJoinExecutor.Execute starts one goroutine per       *)
(* generator; each goroutine calls its generator, stores the string in its *)
(* own slot and, leaving, calls waiter.Done(); Execute waits for the       *)
(* WaitGroup and joins the slots.  The generators of this specification do *)
(* not use the source.                                                     *)
(***************************************************************************)
\* most generators in one Execute call
MaxGens == 3

MockLiteral == opLiteral(LitABC).gen

Children ==
    {NewMockGenerator(0), NewMockGenerator(1), NewMockGenerator(2),
     NewMockGenerator(10), MockLiteral}

\* CreateMocks(n): generators[i] = NewMockGenerator(.., i)
CreateMocks(n) == [i \in 1..n |-> NewMockGenerator(i - 1)]

\* executeGeneratorRepeatedly: generators[i] = generator
Repeatedly(g, n) == [i \in 1..n |-> g]

GeneratorLists ==
    UNION {[1..n -> Children] : n \in 0..(MaxGens - 1)}
        \cup {CreateMocks(MaxGens)}
        \cup {Repeatedly(g, MaxGens) : g \in Children}

\* generators[i].Generate() of a generator that does not use the source
GenerateChild(g) == Generate(g, <<>>).out

RECURSIVE serialExecute(_, _, _)
\* for i := 0; i < numGens; i++ { buffer.WriteString(generators[i].Generate()) }
serialExecute(gens, i, buffer) ==
    IF i > Len(gens) THEN buffer
    ELSE serialExecute(gens, i + 1, buffer \o GenerateChild(gens[i]))

serialExecutorExecute(gens) == serialExecute(gens, 1, <<>>)

RECURSIVE stringsJoin(_, _)
\* strings.Join(results, "") of the first n slots
stringsJoin(slots, n) ==
    IF n = 0 THEN <<>> ELSE stringsJoin(slots, n - 1) \o slots[n]

InitFJ ==
    /\ generators \in GeneratorLists
    /\ results = <<>>
    /\ waiter = 0
    /\ tasks = [i \in DOMAIN generators |-> [st |-> "unspawned", v |-> <<>>]]
    /\ fjpc = [at |-> "start", i |-> 0]
    /\ order = <<>>
    /\ returned = <<>>
    /\ pattern = Leaf("EmptyMatch") /\ flags = {} /\ phase = "idle"
    /\ generator = Nil /\ err = "" /\ result = Nil
    /\ NoCharClass /\ NoGoroutines /\ NoPrepare /\ NoCaller

\* results := make([]string, numGens, numGens); waiter.Add(numGens)
forkJoinBegin ==
    /\ fjpc.at = "start"
    /\ results' = [i \in DOMAIN generators |-> <<>>]
    /\ waiter' = Len(generators)
    /\ fjpc' = [at |-> IF Len(generators) = 0 THEN "wait" ELSE "spawn", i |-> 0]
    /\ UNCHANGED <<generators, tasks, order, returned, regenVars, ccVars, srcVars, execVars, seqVars>>

\* go func(i int) { ... }(i); i++
forkJoinGo ==
    /\ fjpc.at = "spawn"
    /\ tasks' = [tasks EXCEPT ![fjpc.i + 1].st = "running"]
    /\ fjpc' = [at |-> IF fjpc.i + 1 < Len(generators) THEN "spawn" ELSE "wait",
                i |-> fjpc.i + 1]
    /\ UNCHANGED <<generators, results, waiter, order, returned, regenVars,
                   ccVars, srcVars, execVars, seqVars>>

\* goroutine i: generators[i].Generate() returns
taskGenerate(i) ==
    /\ tasks[i].st = "running"
    /\ tasks' = [tasks EXCEPT ![i] = [st |-> "generated",
                                      v |-> GenerateChild(generators[i])]]
    /\ UNCHANGED <<generators, results, waiter, fjpc, order, returned,
                   regenVars, ccVars, srcVars, execVars, seqVars>>

\* a goroutine that stores its string in the next slot, in order of completion
taskStoreAsCompleted(i) ==
    /\ tasks[i].st = "generated"
    /\ results' = [results EXCEPT ![Len(order) + 1] = tasks[i].v]
    /\ order' = Append(order, i)
    /\ tasks' = [tasks EXCEPT ![i].st = "stored"]
    /\ UNCHANGED <<generators, waiter, fjpc, returned, regenVars, ccVars, srcVars, execVars, seqVars>>

\* goroutine i: results[i] = ...
taskStore(i) ==
    /\ tasks[i].st = "generated"
    /\ results' = [results EXCEPT ![i] = tasks[i].v]
    /\ order' = Append(order, i)
    /\ tasks' = [tasks EXCEPT ![i].st = "stored"]
    /\ UNCHANGED <<generators, waiter, fjpc, returned, regenVars, ccVars, srcVars, execVars, seqVars>>

\* goroutine i: the deferred waiter.Done()
taskDone(i) ==
    /\ tasks[i].st = "stored"
    /\ waiter' = waiter - 1
    /\ tasks' = [tasks EXCEPT ![i].st = "done"]
    /\ UNCHANGED <<generators, results, fjpc, order, returned, regenVars,
                   ccVars, srcVars, execVars, seqVars>>

\* an Execute that goes on to the join without waiter.Wait()
forkJoinNoWait ==
    /\ fjpc.at = "wait"
    /\ fjpc' = [fjpc EXCEPT !.at = "join"]
    /\ UNCHANGED <<generators, results, waiter, tasks, order, returned,
                   regenVars, ccVars, srcVars, execVars, seqVars>>

\* waiter.Wait() returns: the counter is zero
forkJoinWait ==
    /\ fjpc.at = "wait"
    /\ waiter = 0
    /\ fjpc' = [fjpc EXCEPT !.at = "join"]
    /\ UNCHANGED <<generators, results, waiter, tasks, order, returned,
                   regenVars, ccVars, srcVars, execVars, seqVars>>

\* return strings.Join(results, "")
forkJoinJoin ==
    /\ fjpc.at = "join"
    /\ returned' = stringsJoin(results, Len(results))
    /\ fjpc' = [fjpc EXCEPT !.at = "returned"]
    /\ UNCHANGED <<generators, results, waiter, tasks, order, regenVars,
                   ccVars, srcVars, execVars, seqVars>>

NextFJ ==
    \/ forkJoinBegin
    \/ forkJoinGo
    \/ \E i \in DOMAIN generators : taskGenerate(i)
    \/ \E i \in DOMAIN generators : taskStore(i)
    \/ \E i \in DOMAIN generators : taskDone(i)
    \/ forkJoinWait
    \/ forkJoinJoin

SpecFJ == InitFJ /\ [][NextFJ]_vars

(***************************************************************************)
(* util.CharClass on its own: ParseCharClass is called with a slice of     *)
(* runes, GetRuneAt with an index.                                         *)
(***************************************************************************)
\* longest slice of runes
MaxClassLen == 4

ClassRunes == {0, 1, 3, 4, 7}

RuneLists == UNION {[1..n -> ClassRunes] : n \in 0..MaxClassLen}

InitCC ==
    /\ ccRunes \in RuneLists
    /\ ccClass = Nil
    /\ ccAt = Nil
    /\ pattern = Leaf("EmptyMatch") /\ flags = {} /\ phase = "idle"
    /\ generator = Nil /\ err = "" /\ result = Nil
    /\ NoExecute /\ NoGoroutines /\ NoPrepare /\ NoCaller

CallParseCharClass ==
    /\ ccClass = Nil
    /\ ccClass' = ParseCharClass(ccRunes)
    /\ UNCHANGED <<ccRunes, ccAt, regenVars, fjVars, srcVars, execVars, seqVars>>

CallGetRuneAt ==
    /\ ccClass # Nil
    /\ ccClass.ok
    /\ \E i \in -1..ccClass.v.TotalSize :
          ccAt' = [i |-> i, r |-> GetRuneAt(ccClass.v, i)]
    /\ UNCHANGED <<ccRunes, ccClass, regenVars, fjVars, srcVars, execVars, seqVars>>

NextCC == CallParseCharClass \/ CallGetRuneAt

SpecCC == InitCC /\ [][NextCC]_vars

(***************************************************************************)
(* The xorshift source.  A uint64 is the set of the positions 0..63 of its *)
(* bits that are 1.                                                        *)
(***************************************************************************)
BitPositions == 0..63

\* the uint64 with the four 16-bit limbs given, most significant first
Uint64(l3, l2, l1, l0) ==
    LET limb(l, at) == {at + k : k \in {j \in 0..15 : (l \div (2 ^ j)) % 2 = 1}}
    IN  limb(l3, 48) \cup limb(l2, 32) \cup limb(l1, 16) \cup limb(l0, 0)

Xor(a, b) == (a \ b) \cup (b \ a)

ShiftRight(a, k) == {b - k : b \in {c \in a : c >= k}}

ShiftLeft(a, k) == {b + k : b \in {c \in a : c + k <= 63}}

Bit(a, p) == IF p \in a THEN 1 ELSE 0

\* byte l of a, as a number
Byte(a, l) ==
    Bit(a, 8 * l) + 2 * Bit(a, 8 * l + 1) + 4 * Bit(a, 8 * l + 2)
        + 8 * Bit(a, 8 * l + 3) + 16 * Bit(a, 8 * l + 4) + 32 * Bit(a, 8 * l + 5)
        + 64 * Bit(a, 8 * l + 6) + 128 * Bit(a, 8 * l + 7)

\* the bits of the number v < 256, as byte l
ByteBits(v, l) == {8 * l + k : k \in {j \in 0..7 : (v \div (2 ^ j)) % 2 = 1}}

RECURSIVE ColumnSum(_, _, _, _)
\* the sum of the products of byte i of a and byte l - i of b, for i up to n
ColumnSum(a, b, l, n) ==
    IF n < 0 THEN 0 ELSE ColumnSum(a, b, l, n - 1) + Byte(a, n) * Byte(b, l - n)

RECURSIVE MultiplyFrom(_, _, _, _)
\* the bytes of a * b from byte l on, carry coming in from the bytes below
MultiplyFrom(a, b, l, carry) ==
    IF l > 7 THEN {}
    ELSE UNION {ByteBits(column % 256, l) \cup MultiplyFrom(a, b, l + 1, column \div 256) :
                    column \in {ColumnSum(a, b, l, l) + carry}}

\* a * b of two uint64, the overflow dropped
Multiply(a, b) == MultiplyFrom(a, b, 0, 0)

\* 2685821657736338717 = 0x2545F4914F6CDD1D
Multiplier == Uint64(9541, 62609, 20332, 56605)

\* the constructor without "if seed == 0 { seed = 1 }"
newXorShift64SourceAnySeed(seed) == seed

\* if seed == 0 { seed = 1 }; return &xorShift64Source{uint64(seed)}
newXorShift64Source(seed) == IF seed = {} THEN {0} ELSE seed

\* src.state = uint64(seed)
xorShift64SourceSeed(seed) == seed

\* x ^= x >> 12; x ^= x << 25; x ^= x >> 27
xorShift(x) ==
    LET a == Xor(x, ShiftRight(x, 12))
        b == Xor(a, ShiftLeft(a, 25))
    IN  Xor(b, ShiftRight(b, 27))

\* Int63's return value without ">> 1"
scrambleUnshifted(x) == Multiply(x, Multiplier)

\* int64((x * 2685821657736338717) >> 1), of the state x just stored
scramble(x) == ShiftRight(Multiply(x, Multiplier), 1)

\* rand.Rand.Int31: int32(r.src.Int63() >> 32)
Int31OfInt63(v) ==
    LET h == ShiftRight(v, 32)
    IN  Byte(h, 0) + 256 * Byte(h, 1) + 65536 * Byte(h, 2) + 16777216 * Byte(h, 3)

(***************************************************************************)
(* One caller of a xorshift source: the source is constructed with         *)
(* newXorShift64Source, or seeded again with Seed, and Int63() is called   *)
(* on it time after time, as the loops of rng_test.go do.                  *)
(***************************************************************************)
\* 1, and a seed whose first Int31() is the newline
SeedOne == Uint64(0, 0, 0, 1)
SeedNewline == Uint64(1008, 896, 5142, 14723)

\* most Int63() calls on one seed
MaxCalls == 10

\* int64 seeds: 0, 1, -1, the least int64, and two of mixed bits
Seeds ==
    {{}, SeedOne, BitPositions, {63}, SeedNewline,
     Uint64(65535, 0, 65535, 43690)}

InitSrc ==
    /\ \E s \in Seeds :
          /\ srcSeed = [by |-> "newXorShift64Source", seed |-> s]
          /\ state = newXorShift64Source(s)
    /\ drawn = <<>> /\ runs = <<>>
    /\ wordBits = 64 /\ conc = <<>>
    /\ pattern = Leaf("EmptyMatch") /\ flags = {} /\ phase = "idle"
    /\ generator = Nil /\ err = "" /\ result = Nil
    /\ NoExecute /\ NoCharClass /\ NoPrepare

\* src.Seed(seed)
SourceSeed ==
    /\ \E s \in Seeds :
          /\ srcSeed' = [by |-> "Seed", seed |-> s]
          /\ state' = xorShift64SourceSeed(s)
    /\ drawn' = <<>>
    /\ UNCHANGED <<runs, wordBits, conc, regenVars, fjVars, ccVars, execVars>>

\* src.Int63()
SourceInt63 ==
    /\ Len(drawn) < MaxCalls
    /\ state' = xorShift(state)
    /\ drawn' = Append(drawn, scramble(state'))
    /\ UNCHANGED <<srcSeed, runs, wordBits, conc, regenVars, fjVars, ccVars, execVars>>

NextSrc == SourceSeed \/ SourceInt63

SpecSrc == InitSrc /\ [][NextSrc]_vars

(***************************************************************************)
(* Goroutines calling Generate() on one generator, whose source is the     *)
(* xorshift source NewGenerator seeded.  The source takes no lock:         *)
(* Int63() loads src.state, computes, and stores src.state, and another    *)
(* goroutine may run between the load and the store.  On a build with      *)
(* 32-bit words a uint64 is loaded and stored one half at a time, in       *)
(* either order.                                                           *)
(***************************************************************************)
Goroutines == {1, 2}

\* the seeds of the generator's source
SeedValues == {{}, SeedOne, SeedNewline}

ConcPatterns ==
    {Leaf("AnyCharNotNL"), ClassAB, ClassNone, Unary("Quest", LitA),
     Nary("Alternate", <<LitA, ClassAB>>)}

\* the parts of a uint64 that one load or one store moves
Words == IF wordBits = 64 THEN {BitPositions} ELSE {0..31, 32..63}

InitConc ==
    /\ flags = {}
    /\ pattern \in ConcPatterns
    /\ phase = "ready"
    /\ generator = newGenerator(pattern).gen
    /\ err = ""
    /\ result = Nil
    /\ wordBits \in {32, 64}
    /\ \E seed \in SeedValues : state = newXorShift64Source(seed)
    /\ conc = [t \in Goroutines |->
                 [pc |-> "idle", x |-> {}, moved |-> {}, got |-> <<>>, res |-> Nil]]
    /\ NoExecute /\ NoCharClass /\ NoPrepare /\ NoCaller

\* goroutine t calls generator.Generate()
GoGenerate(t) ==
    /\ conc[t].pc = "idle"
    /\ conc' = [conc EXCEPT ![t].pc = "run"]
    /\ UNCHANGED <<wordBits, state, regenVars, fjVars, ccVars, execVars, seqVars>>

\* the call runs on to where it asks the source for one more value
GoInt63(t) ==
    /\ conc[t].pc = "run"
    /\ Generate(generator, conc[t].got).st = "more"
    /\ Len(conc[t].got) < MaxDraws
    /\ conc' = [conc EXCEPT ![t].pc = "load", ![t].x = {}, ![t].moved = {}]
    /\ UNCHANGED <<wordBits, state, regenVars, fjVars, ccVars, execVars, seqVars>>

\* x := src.state, one word of it; after the last word x is shifted
GoLoad(t) ==
    /\ conc[t].pc = "load"
    /\ \E w \in Words \ conc[t].moved :
          LET x     == conc[t].x \cup (state \cap w)
              moved == conc[t].moved \cup {w}
          IN  conc' = [conc EXCEPT ![t] =
                         IF moved = Words
                         THEN [@ EXCEPT !.pc = "store", !.x = xorShift(x), !.moved = {}]
                         ELSE [@ EXCEPT !.x = x, !.moved = moved]]
    /\ UNCHANGED <<wordBits, state, regenVars, fjVars, ccVars, execVars, seqVars>>

\* an Int63() that updates src.state from its current value in one step
GoStoreFresh(t) ==
    /\ conc[t].pc = "store"
    /\ LET v == Int31OfInt63(scramble(xorShift(state)))
       IN  /\ state' = xorShift(state)
           /\ conc' = [conc EXCEPT ![t] =
                         [pc |-> "run", x |-> conc[t].x, moved |-> {},
                          got |-> Append(conc[t].got, v), res |-> conc[t].res]]
    /\ UNCHANGED <<wordBits, regenVars, fjVars, ccVars, execVars, seqVars>>

\* src.state = x, one word of it; after the last word Int63 returns
GoStore(t) ==
    /\ conc[t].pc = "store"
    /\ \E w \in Words \ conc[t].moved :
          LET moved == conc[t].moved \cup {w}
              v     == Int31OfInt63(scramble(conc[t].x))
          IN  /\ state' = (state \ w) \cup (conc[t].x \cap w)
              /\ conc' = [conc EXCEPT ![t] =
                            IF moved = Words
                            THEN [pc |-> "run", x |-> conc[t].x, moved |-> {},
                                  got |-> Append(conc[t].got, v),
                                  res |-> conc[t].res]
                            ELSE [pc |-> "store", x |-> conc[t].x, moved |-> moved,
                                  got |-> conc[t].got, res |-> conc[t].res]]
    /\ UNCHANGED <<wordBits, regenVars, fjVars, ccVars, execVars, seqVars>>

\* the call returns, or panics
GoReturn(t) ==
    /\ conc[t].pc = "run"
    /\ LET r == Generate(generator, conc[t].got)
       IN  /\ r.st # "more"
           /\ conc' = [conc EXCEPT ![t].pc = "done",
                                   ![t].res = [st |-> r.st, out |-> r.out,
                                               draws |-> conc[t].got, log |-> r.log]]
    /\ UNCHANGED <<wordBits, state, regenVars, fjVars, ccVars, execVars, seqVars>>

NextConc ==
    \E t \in Goroutines :
        GoGenerate(t) \/ GoInt63(t) \/ GoLoad(t) \/ GoStore(t) \/ GoReturn(t)

SpecConc == InitConc /\ [][NextConc]_vars

(***************************************************************************)
(* An executor and the source it prepares.  PrepareSource is called once,  *)
(* when the generator's arguments are set up, and the generators draw from *)
(* the source it returned.  Execute runs the list of generators: the       *)
(* serial executor one after the other on the calling goroutine, the       *)
(* fork-join executor each on a goroutine of its own.  lockedSource.Int63  *)
(* locks lk, calls Int63 of the source it wraps, and unlocks.              *)
(***************************************************************************)
RECURSIVE SourceStream(_, _)
\* the first k values Int63() returns, one call after the other, from state x
SourceStream(x, k) ==
    IF k = 0 THEN <<>>
    ELSE LET y == xorShift(x) IN <<scramble(y)>> \o SourceStream(y, k - 1)

RECURSIVE StateAfter(_, _)
\* src.state after k calls of Int63(), one after the other, from state x
StateAfter(x, k) == IF k = 0 THEN x ELSE StateAfter(xorShift(x), k - 1)

\* the source handed to PrepareSource: the xorshift source
XorShiftSource == [kind |-> "xorShift64Source"]

newLockedSource(src) == [kind |-> "lockedSource", src |-> src]

serialExecutorPrepareSource(source) == source

\* forkJoinExecutor.PrepareSource returning the source as it came
forkJoinExecutorPrepareSourceBare(source) == source

forkJoinExecutorPrepareSource(source) == newLockedSource(source)

Executors == {"serial", "forkJoin"}

ExecPatterns ==
    {ClassAB, Unary("Quest", LitA), Nary("Concat", <<ClassAB, ClassAB>>), ClassNone}

\* a Generate() call has panicked.  Nothing recovers the panic: on the
\* goroutine of a fork-join task it ends the process, on the caller's
\* goroutine it unwinds Execute; either way no step of Execute follows.
Crashed == \E t \in DOMAIN conc : conc[t].res # Nil /\ conc[t].res.st = "panic"

InitExec ==
    /\ executor \in Executors
    /\ rng = Nil
    /\ lk = 0
    /\ flags = {}
    /\ pattern \in ExecPatterns
    /\ phase = "ready"
    /\ generator = newGenerator(pattern).gen
    /\ err = ""
    /\ result = Nil
    /\ wordBits \in {32, 64}
    /\ \E s \in {SeedOne, SeedNewline} :
          /\ srcSeed = [by |-> "newXorShift64Source", seed |-> s]
          /\ state = newXorShift64Source(s)
    /\ drawn = <<>> /\ runs = <<>>
    /\ conc = [t \in Goroutines |->
                 [pc |-> "idle", x |-> {}, moved |-> {}, got |-> <<>>, res |-> Nil]]
    /\ NoExecute /\ NoCharClass

\* args.Executor.PrepareSource(source), the result becoming the source of
\* the generators' rand.Rand
PrepareSource ==
    /\ rng = Nil
    /\ rng' = IF executor = "forkJoin"
              THEN forkJoinExecutorPrepareSource(XorShiftSource)
              ELSE serialExecutorPrepareSource(XorShiftSource)
    /\ UNCHANGED <<executor, lk, srcVars, regenVars, fjVars, ccVars, seqVars>>

\* ExecGenerate starting every call at once, whatever the executor
ExecGenerateAtOnce(t) ==
    /\ ~Crashed
    /\ rng # Nil
    /\ conc[t].pc = "idle"
    /\ conc' = [conc EXCEPT ![t].pc = "run"]
    /\ UNCHANGED <<wordBits, state, execVars, regenVars, fjVars, ccVars, seqVars>>

\* Execute starts generators[t].Generate(args): the fork-join executor at
\* once for every t, the serial executor when the calls before it are done
ExecGenerate(t) ==
    /\ ~Crashed
    /\ rng # Nil
    /\ conc[t].pc = "idle"
    /\ executor = "serial" => \A u \in Goroutines : u < t => conc[u].pc = "done"
    /\ conc' = [conc EXCEPT ![t].pc = "run"]
    /\ UNCHANGED <<wordBits, state, execVars, regenVars, fjVars, ccVars, seqVars>>

\* the call asks a lockedSource for a value: r.lk.Lock()
ExecLock(t) ==
    /\ ~Crashed
    /\ conc[t].pc = "run"
    /\ Generate(generator, conc[t].got).st = "more"
    /\ Len(conc[t].got) < MaxDraws
    /\ rng.kind = "lockedSource"
    /\ lk = 0
    /\ lk' = t
    /\ conc' = [conc EXCEPT ![t].pc = "load", ![t].x = {}, ![t].moved = {}]
    /\ UNCHANGED <<executor, rng, wordBits, state, regenVars, fjVars, ccVars, seqVars>>

\* the call asks the xorshift source itself for a value
ExecInt63(t) ==
    /\ ~Crashed
    /\ conc[t].pc = "run"
    /\ Generate(generator, conc[t].got).st = "more"
    /\ Len(conc[t].got) < MaxDraws
    /\ rng.kind = "xorShift64Source"
    /\ conc' = [conc EXCEPT ![t].pc = "load", ![t].x = {}, ![t].moved = {}]
    /\ UNCHANGED <<wordBits, state, execVars, regenVars, fjVars, ccVars, seqVars>>

\* src.state = x, one word of it; after the last word the xorshift source's
\* Int63 returns, to the lockedSource if there is one
ExecStore(t) ==
    /\ ~Crashed
    /\ conc[t].pc = "store"
    /\ \E w \in Words \ conc[t].moved :
          LET moved == conc[t].moved \cup {w}
              v     == Int31OfInt63(scramble(conc[t].x))
          IN  /\ state' = (state \ w) \cup (conc[t].x \cap w)
              /\ drawn' = IF moved = Words
                          THEN Append(drawn, scramble(conc[t].x)) ELSE drawn
              /\ conc' = [conc EXCEPT ![t] =
                            IF moved = Words
                            THEN [pc |-> IF rng.kind = "lockedSource"
                                         THEN "unlock" ELSE "run",
                                  x |-> conc[t].x, moved |-> {},
                                  got |-> Append(conc[t].got, v),
                                  res |-> conc[t].res]
                            ELSE [pc |-> "store", x |-> conc[t].x, moved |-> moved,
                                  got |-> conc[t].got, res |-> conc[t].res]]
    /\ UNCHANGED <<srcSeed, runs, wordBits, execVars, regenVars, fjVars, ccVars>>

\* r.lk.Unlock(); return
ExecUnlock(t) ==
    /\ ~Crashed
    /\ conc[t].pc = "unlock"
    /\ lk' = 0
    /\ conc' = [conc EXCEPT ![t].pc = "run"]
    /\ UNCHANGED <<executor, rng, wordBits, state, regenVars, fjVars, ccVars, seqVars>>

\* x := src.state, as in GoLoad
ExecLoad(t) == ~Crashed /\ GoLoad(t)

\* generators[t].Generate(args) returns, or panics
ExecEnd(t) == ~Crashed /\ GoReturn(t)

\* Execute returns: the serial executor's buffer.String() after its loop, the
\* fork-join executor's strings.Join(results, "") after waiter.Wait()
ExecReturn ==
    /\ ~Crashed
    /\ result = Nil
    /\ \A t \in Goroutines : conc[t].pc = "done"
    /\ result' = [st |-> "ok",
                  out |-> stringsJoin([t \in Goroutines |-> conc[t].res.out],
                                      Cardinality(Goroutines)),
                  draws |-> <<>>, log |-> <<>>]
    /\ UNCHANGED <<pattern, flags, phase, generator, err, srcVars, execVars,
                   fjVars, ccVars, seqVars>>

NextExec ==
    \/ PrepareSource
    \/ ExecReturn
    \/ \E t \in Goroutines :
          \/ ExecGenerate(t) \/ ExecLock(t) \/ ExecInt63(t) \/ ExecLoad(t)
          \/ ExecStore(t) \/ ExecUnlock(t) \/ ExecEnd(t)

SpecExec == InitExec /\ [][NextExec]_vars

\* the goroutines are scheduled fairly: a step that stays possible is taken
FairExec ==
    /\ WF_vars(PrepareSource) /\ WF_vars(ExecReturn)
    /\ \A t \in Goroutines :
          /\ WF_vars(ExecGenerate(t)) /\ WF_vars(ExecLock(t))
          /\ WF_vars(ExecInt63(t)) /\ WF_vars(ExecLoad(t))
          /\ WF_vars(ExecStore(t)) /\ WF_vars(ExecUnlock(t))
          /\ WF_vars(ExecEnd(t))

SpecExecFair == SpecExec /\ FairExec

(***************************************************************************)
(* Generators made one after the other by NewGenerator from the same       *)
(* pattern, flags, executor and seed, each running Execute once: runs      *)
(* keeps what the earlier ones returned, the values their sources          *)
(* returned and the state their sources were left in.                      *)
(***************************************************************************)
\* most generators made from the same arguments
MaxRuns == 2

\* a second generator that goes on with the first one's source as it was left
ExecAgainUnseeded ==
    /\ ~Crashed
    /\ result # Nil
    /\ Len(runs) + 1 < MaxRuns
    /\ runs' = Append(runs, [out |-> result.out,
                             outs |-> [t \in Goroutines |-> conc[t].res.out],
                             gots |-> [t \in Goroutines |-> conc[t].got],
                             drawn |-> drawn,
                             state |-> state])
    /\ result' = Nil
    /\ drawn' = <<>>
    /\ conc' = [t \in Goroutines |->
                  [pc |-> "idle", x |-> {}, moved |-> {}, got |-> <<>>, res |-> Nil]]
    /\ UNCHANGED <<pattern, flags, phase, generator, err, wordBits, state, srcSeed,
                   execVars, fjVars, ccVars>>

\* NewGenerator(pattern, args) once more, with the same arguments
ExecAgain ==
    /\ ~Crashed
    /\ result # Nil
    /\ Len(runs) + 1 < MaxRuns
    /\ runs' = Append(runs, [out |-> result.out,
                             outs |-> [t \in Goroutines |-> conc[t].res.out],
                             gots |-> [t \in Goroutines |-> conc[t].got],
                             drawn |-> drawn,
                             state |-> state])
    /\ result' = Nil
    /\ state' = newXorShift64Source(srcSeed.seed)
    /\ drawn' = <<>>
    /\ conc' = [t \in Goroutines |->
                  [pc |-> "idle", x |-> {}, moved |-> {}, got |-> <<>>, res |-> Nil]]
    /\ UNCHANGED <<pattern, flags, phase, generator, err, wordBits, srcSeed,
                   execVars, fjVars, ccVars>>

NextRuns == NextExec \/ ExecAgain

SpecRuns == InitExec /\ [][NextRuns]_vars

(***************************************************************************)
(* lockedSource on its own: goroutines call Int63() and Seed() on one      *)
(* lockedSource that wraps the xorshift source.  Each method locks lk,     *)
(* calls the wrapped method, which loads and stores src.state a word at a  *)
(* time, and unlocks.  got and drawn hold the values returned since the    *)
(* source was last seeded.                                                 *)
(***************************************************************************)
\* most calls one goroutine makes
MaxOps == 2

\* the seeds Seed() is called with
LockedSeeds == {{}, SeedOne}

InitLocked ==
    /\ executor = "forkJoin"
    /\ rng = forkJoinExecutorPrepareSource(XorShiftSource)
    /\ lk = 0
    /\ wordBits \in {32, 64}
    /\ \E s \in {SeedOne, SeedNewline} :
          /\ srcSeed = [by |-> "newXorShift64Source", seed |-> s]
          /\ state = newXorShift64Source(s)
    /\ drawn = <<>> /\ runs = <<>>
    /\ conc = [t \in Goroutines |->
                 [pc |-> "idle", x |-> {}, moved |-> {}, got |-> <<>>, calls |-> 0]]
    /\ pattern = Leaf("EmptyMatch") /\ flags = {} /\ phase = "idle"
    /\ generator = Nil /\ err = "" /\ result = Nil
    /\ NoExecute /\ NoCharClass

\* goroutine t calls r.Int63()
LockedInt63(t) ==
    /\ conc[t].pc = "idle"
    /\ conc[t].calls < MaxOps
    /\ conc' = [conc EXCEPT ![t].pc = "lockInt63", ![t].calls = @ + 1]
    /\ UNCHANGED <<wordBits, state, regenVars, fjVars, ccVars, execVars, seqVars>>

\* goroutine t calls r.Seed(seed)
LockedSeed(t) ==
    /\ conc[t].pc = "idle"
    /\ conc[t].calls < MaxOps
    /\ \E s \in LockedSeeds :
          conc' = [conc EXCEPT ![t].pc = "lockSeed", ![t].x = s, ![t].calls = @ + 1]
    /\ UNCHANGED <<wordBits, state, regenVars, fjVars, ccVars, execVars, seqVars>>

\* r.lk.Lock() that locks without waiting for the mutex to be free
LockedLockAtOnce(t) ==
    /\ conc[t].pc \in {"lockInt63", "lockSeed"}
    /\ lk' = t
    /\ conc' = [conc EXCEPT ![t].pc = IF @ = "lockInt63" THEN "load" ELSE "seed",
                            ![t].x = IF conc[t].pc = "lockInt63" THEN {} ELSE @,
                            ![t].moved = {}]
    /\ UNCHANGED <<executor, rng, wordBits, state, regenVars, fjVars, ccVars, seqVars>>

\* r.lk.Lock()
LockedLock(t) ==
    /\ conc[t].pc \in {"lockInt63", "lockSeed"}
    /\ lk = 0
    /\ lk' = t
    /\ conc' = [conc EXCEPT ![t].pc = IF @ = "lockInt63" THEN "load" ELSE "seed",
                            ![t].x = IF conc[t].pc = "lockInt63" THEN {} ELSE @,
                            ![t].moved = {}]
    /\ UNCHANGED <<executor, rng, wordBits, state, regenVars, fjVars, ccVars, seqVars>>

\* n = r.src.Int63(): src.state = x, one word of it; after the last word the
\* value is returned
LockedStore(t) ==
    /\ conc[t].pc = "store"
    /\ \E w \in Words \ conc[t].moved :
          LET moved == conc[t].moved \cup {w}
              v     == scramble(conc[t].x)
          IN  /\ state' = (state \ w) \cup (conc[t].x \cap w)
              /\ drawn' = IF moved = Words THEN Append(drawn, v) ELSE drawn
              /\ conc' = [conc EXCEPT ![t] =
                            IF moved = Words
                            THEN [@ EXCEPT !.pc = "unlock", !.moved = {},
                                           !.got = Append(@, v)]
                            ELSE [@ EXCEPT !.moved = moved]]
    /\ UNCHANGED <<srcSeed, runs, wordBits, regenVars, fjVars, ccVars, execVars>>

\* r.src.Seed(seed): src.state = uint64(seed), one word of it
LockedSeedStore(t) ==
    /\ conc[t].pc = "seed"
    /\ \E w \in Words \ conc[t].moved :
          LET moved == conc[t].moved \cup {w}
          IN  /\ state' = (state \ w) \cup (xorShift64SourceSeed(conc[t].x) \cap w)
              /\ IF moved = Words
                 THEN /\ srcSeed' = [by |-> "Seed", seed |-> conc[t].x]
                      /\ drawn' = <<>>
                      /\ conc' = [u \in Goroutines |->
                                    IF u = t
                                    THEN [conc[u] EXCEPT !.pc = "unlock", !.moved = {},
                                                         !.got = <<>>]
                                    ELSE [conc[u] EXCEPT !.got = <<>>]]
                 ELSE /\ conc' = [conc EXCEPT ![t].moved = moved]
                      /\ UNCHANGED <<srcSeed, drawn>>
    /\ UNCHANGED <<runs, wordBits, regenVars, fjVars, ccVars, execVars>>

\* r.lk.Unlock(); return
LockedUnlock(t) ==
    /\ conc[t].pc = "unlock"
    /\ lk' = 0
    /\ conc' = [conc EXCEPT ![t].pc = "idle"]
    /\ UNCHANGED <<executor, rng, wordBits, state, regenVars, fjVars, ccVars, seqVars>>

NextLocked ==
    \E t \in Goroutines :
        \/ LockedInt63(t) \/ LockedSeed(t) \/ LockedLock(t) \/ GoLoad(t)
        \/ LockedStore(t) \/ LockedSeedStore(t) \/ LockedUnlock(t)

SpecLocked == InitLocked /\ [][NextLocked]_vars

(***************************************************************************)
(* A reference matcher: regexp.MatchString, which reports whether the      *)
(* string contains a match of the expression.  MatchSpan(re, s, i, j) is   *)
(* "re matches s[i+1..j]", read inside the whole of s.                     *)
(***************************************************************************)
IsWordChar(r) ==
    \/ r >= 48 /\ r <= 57
    \/ r >= 65 /\ r <= 90
    \/ r >= 97 /\ r <= 122
    \/ r = 95

IsWordAt(s, k) == k >= 1 /\ k <= Len(s) /\ IsWordChar(s[k])

RECURSIVE MatchSpan(_, _, _, _)
RECURSIVE MatchCount(_, _, _, _, _, _)
RECURSIVE MatchSeq(_, _, _, _, _)

\* between lo and hi (-1: any number of) matches of sub, one after the other
MatchCount(sub, lo, hi, s, i, j) ==
    \/ lo = 0 /\ i = j
    \/ /\ hi # 0
       /\ \E k \in (IF lo > 0 THEN i ELSE i + 1)..j :
             /\ MatchSpan(sub, s, i, k)
             /\ MatchCount(sub, IF lo > 0 THEN lo - 1 ELSE 0,
                           IF hi < 0 THEN hi ELSE hi - 1, s, k, j)

MatchSeq(subs, n, s, i, j) ==
    IF n > Len(subs) THEN i = j
    ELSE \E k \in i..j : MatchSpan(subs[n], s, i, k) /\ MatchSeq(subs, n + 1, s, k, j)

MatchSpan(re, s, i, j) ==
    CASE re.Op = "EmptyMatch" -> i = j
      [] re.Op = "Literal" ->
            /\ j - i = Len(re.Rune)
            /\ \A k \in 1..Len(re.Rune) : s[i + k] = re.Rune[k]
      [] re.Op = "CharClass" ->
            /\ j = i + 1
            /\ \E k \in 1..(Len(re.Rune) \div 2) :
                  re.Rune[2 * k - 1] <= s[j] /\ s[j] <= re.Rune[2 * k]
      [] re.Op = "AnyCharNotNL" -> j = i + 1 /\ s[j] # NL
      [] re.Op = "AnyChar" -> j = i + 1
      [] re.Op = "BeginLine" -> i = j /\ (i = 0 \/ s[i] = NL)
      [] re.Op = "EndLine" -> i = j /\ (i = Len(s) \/ s[i + 1] = NL)
      [] re.Op = "BeginText" -> i = j /\ i = 0
      [] re.Op = "EndText" -> i = j /\ i = Len(s)
      [] re.Op = "WordBoundary" -> i = j /\ IsWordAt(s, i) # IsWordAt(s, i + 1)
      [] re.Op = "NoWordBoundary" -> i = j /\ IsWordAt(s, i) = IsWordAt(s, i + 1)
      [] re.Op = "Capture" -> MatchSpan(re.Sub[1], s, i, j)
      [] re.Op = "Quest" -> MatchCount(re.Sub[1], 0, 1, s, i, j)
      [] re.Op = "Star" -> MatchCount(re.Sub[1], 0, -1, s, i, j)
      [] re.Op = "Plus" -> MatchCount(re.Sub[1], 1, -1, s, i, j)
      [] re.Op = "Repeat" -> MatchCount(re.Sub[1], re.Min, re.Max, s, i, j)
      [] re.Op = "Concat" -> MatchSeq(re.Sub, 1, s, i, j)
      [] re.Op = "Alternate" -> \E k \in DOMAIN re.Sub : MatchSpan(re.Sub[k], s, i, j)
      [] OTHER -> FALSE

MatchString(re, s) ==
    \E i \in 0..Len(s) : \E j \in i..Len(s) : MatchSpan(re, s, i, j)

(***************************************************************************)
(* What the claims speak of.                                               *)
(***************************************************************************)
Returned == result # Nil /\ result.st = "ok"

\* the log records of the last call that a closure of the given kind wrote
Events(node) ==
    IF result = Nil THEN {}
    ELSE {result.log[i] : i \in {k \in DOMAIN result.log : result.log[k].node = node}}

RECURSIVE JoinRange(_, _, _)
\* outs[lo] \o ... \o outs[hi]
JoinRange(outs, lo, hi) ==
    IF lo > hi THEN <<>>
    ELSE IF lo = hi THEN outs[lo]
    ELSE LET mid == (lo + hi) \div 2
         IN  JoinRange(outs, lo, mid) \o JoinRange(outs, mid + 1, hi)

Join(outs) == JoinRange(outs, 1, Len(outs))

\* C1: for every pattern that NewGenerator accepts, every string Generate()
\* returns matches the pattern (as regexp.MatchString decides), whatever the
\* source returns.
C1_GeneratedStringMatches ==
    (phase = "ready" /\ Returned) => MatchString(pattern, result.out)

\* C2: for generators whose results do not depend on the source,
\* forkJoinExecutor.Execute returns the generators' results concatenated in
\* index order, whatever the interleaving and the order in which the
\* goroutines finish; this is what serialExecutor.Execute returns for the same
\* list; for n copies of one generator the result is n copies of its result.
C2_ForkJoinInIndexOrder ==
    fjpc.at = "returned" =>
        /\ returned = Join([i \in DOMAIN generators |-> GenerateChild(generators[i])])
        /\ returned = serialExecutorExecute(generators)
        /\ (generators # <<>> /\ \A i \in DOMAIN generators : generators[i] = generators[1])
              => Len(returned) =
                    Len(generators) * Len(GenerateChild(generators[1]))

\* Execute has returned the results of CreateMocks(n) in index order although
\* the goroutine of the highest index stored its result first
C2_Witness ==
    /\ fjpc.at = "returned"
    /\ Len(generators) >= 3
    /\ generators = CreateMocks(Len(generators))
    /\ order[1] = Len(generators)
    /\ returned = <<48, 49, 50>> \o SubSeq(returned, 4, Len(returned))

\* C3: forkJoinExecutor.Execute is a join barrier: when Execute reads the
\* slots and when it has returned, every goroutine it started has stored its
\* own slot and has finished.
C3_JoinBarrier ==
    fjpc.at \in {"join", "returned"} =>
        \A i \in DOMAIN generators :
            /\ tasks[i].st = "done"
            /\ results[i] = GenerateChild(generators[i])

\* Execute reads the slots of three goroutines, the last of which was the
\* first to finish
C3_Witness ==
    /\ fjpc.at = "join"
    /\ Len(generators) >= 3
    /\ order[1] = Len(generators)
    /\ \A i \in DOMAIN generators : tasks[i].st = "done"

\* C4: generation cannot fail: a Generate() call on a generator that
\* NewGenerator returned without an error never panics, whatever the source
\* returns.
C4_GenerateNeverPanics ==
    result # Nil => result.st # "panic"

\* C5: one compiled generator can be used from several goroutines without
\* locking: in every interleaving every Generate() call completes, without a
\* panic, and returns a string that matches the pattern.
C5_ConcurrentCallsMatch ==
    \A t \in DOMAIN conc :
        conc[t].pc = "done" =>
            conc[t].res.st = "ok" /\ MatchString(pattern, conc[t].res.out)

\* C6: on every Generate() call of a repeat generator with bounds (min, max)
\* the child is invoked n times with min <= n <= max, n being min plus a value
\* drawn from the source during this call, and the result is the concatenation
\* of the n results of the child.
C6_RepeatCountWithinBounds ==
    \A ev \in Events("repeat") :
        /\ ev.min <= ev.n /\ ev.n <= ev.max
        /\ ev.n = ev.min + ev.drawn
        /\ \E k \in DOMAIN result.draws :
              result.draws[k] % (ev.max - ev.min + 1) = ev.drawn
        /\ Len(ev.outs) = ev.n
        /\ ev.out = Join(ev.outs)

\* a call that ran the child strictly between min and max times, more than once
C6_Witness ==
    \E ev \in Events("repeat") :
        ev.min < ev.n /\ ev.n < ev.max /\ ev.n = NL /\ Len(ev.out) = NL

\* a generator whose Generate() does not use the source
DrawFree(g) == g.kind \in {"literal", "noop", "emptyMatch"}

RunsChild(g, n) ==
    \E r \in Runs(g, <<>>) :
        /\ r.st = "ok"
        /\ r.log # <<>>
        /\ r.log[1].node = "repeat" /\ r.log[1].n = n /\ Len(r.log[1].outs) = n

\* C7: both ends of a repeat's closed interval are reachable: for a repeat
\* generator with bounds (min, max) there is a value of the source for which
\* Generate() invokes the child exactly min times and one for which it invokes
\* it exactly max times; a{0,3} generates the empty string for one sequence of
\* values and "aaa" for another.
C7_BothEndsReachable ==
    /\ (phase = "ready" /\ generator.kind = "repeat" /\ DrawFree(generator.generator))
          => RunsChild(generator, generator.min) /\ RunsChild(generator, generator.max)
    /\ (phase = "ready" /\ pattern = Rep(LitA, 0, 3))
          => /\ \E r \in Runs(generator, <<>>) : r.st = "ok" /\ r.out = <<>>
             /\ \E r \in Runs(generator, <<>>) : r.st = "ok" /\ r.out = <<97, 97, 97>>

\* a{0,3} has generated "aaa"
C7_Witness ==
    pattern = Rep(LitA, 0, 3) /\ Returned /\ result.out = <<97, 97, 97>>

\* the generator node an unbounded repeat x*, x+ or x{m,} is compiled to
UnboundedPattern ==
    \/ pattern.Op \in {"Star", "Plus"}
    \/ pattern.Op = "Repeat" /\ pattern.Max = -1

UnboundedNode ==
    IF generator.kind = "concat"
    THEN generator.generators[Len(generator.generators)]
    ELSE generator

C9_DotNeverNewline ==
    (pattern = Leaf("AnyCharNotNL") /\ "DotNL" \notin flags /\ Returned)
        => result.out # <<NL>>

\* the k-th pair of the slice, as the class stores it: a start of 0 becomes 1
PairStart(k) == IF ccRunes[2 * k - 1] = 0 THEN 1 ELSE ccRunes[2 * k - 1]

PairEnd(k) == ccRunes[2 * k]

RECURSIVE LaidOut(_)
\* the codepoints of the first k pairs, laid end to end in stored order
LaidOut(k) ==
    IF k = 0 THEN <<>>
    ELSE LaidOut(k - 1) \o [j \in 1..(PairEnd(k) - PairStart(k) + 1) |-> PairStart(k) + j - 1]

\* C10: for a CharClass built from range pairs TotalSize is the sum of the
\* sizes of the ranges, and for every index i with 0 <= i < TotalSize
\* GetRuneAt(i) returns the i-th codepoint of the ranges laid end to end in
\* stored order, which lies inside one of the pairs the class was built from.
C10_GetRuneAtIsIthCodepoint ==
    (ccClass # Nil /\ ccClass.ok) =>
        LET class == ccClass.v
            n     == Len(ccRunes) \div 2
        IN  /\ Len(class.Ranges) = n
            /\ \A k \in 1..n :
                  /\ class.Ranges[k].Start = PairStart(k)
                  /\ class.Ranges[k].Size = PairEnd(k) - PairStart(k) + 1
            /\ class.TotalSize = Len(LaidOut(n))
            /\ (ccAt # Nil /\ ccAt.i >= 0 /\ ccAt.i < class.TotalSize) =>
                  /\ ccAt.r.ok
                  /\ ccAt.r.v = LaidOut(n)[ccAt.i + 1]
                  /\ \E k \in 1..n :
                        ccRunes[2 * k - 1] <= ccAt.r.v /\ ccAt.r.v <= ccRunes[2 * k]

\* GetRuneAt has returned a rune of the second of two ranges, the first
\* holding more than one rune
C10_Witness ==
    /\ ccClass # Nil /\ ccClass.ok
    /\ Len(ccClass.v.Ranges) = 2
    /\ ccClass.v.Ranges[1].Size > 1
    /\ ccAt # Nil
    /\ ccAt.i >= ccClass.v.Ranges[1].Size /\ ccAt.i < ccClass.v.TotalSize
    /\ ccAt.r.ok /\ ccAt.r.v >= ccClass.v.Ranges[2].Start

\* C11: a char class never yields the null codepoint: a pair that starts at 0
\* is stored with start 1, so every range of a class ParseCharClass returns
\* starts at 1 or above and GetRuneAt(i) >= 1 for every 0 <= i < TotalSize.
C11_NeverNullCodepoint ==
    (ccClass # Nil /\ ccClass.ok) =>
        /\ \A k \in 1..Len(ccClass.v.Ranges) : ccClass.v.Ranges[k].Start >= 1
        /\ (ccAt # Nil /\ ccAt.i >= 0 /\ ccAt.i < ccClass.v.TotalSize) =>
              (ccAt.r.ok /\ ccAt.r.v >= 1)

\* the first rune of a class whose first pair starts at 0 has been taken
C11_Witness ==
    /\ ccRunes # <<>> /\ ccRunes[1] = 0
    /\ ccClass # Nil /\ ccClass.ok
    /\ ccAt # Nil /\ ccAt.i = 0
    /\ ccAt.r.ok /\ ccAt.r.v = 1

\* C12: a capture group is transparent: the generator compiled for
\* Capture(child) is the generator compiled for child, so on the same values
\* of the source both generate the same string; "(abc)" generates "abc" and
\* "()" generates "".
C12_CaptureIsTransparent ==
    (pattern.Op = "Capture" /\ ~UnicodeGroupsWithoutPerl(flags) /\ phase # "new") =>
        LET child == newGenerator(pattern.Sub[1])
        IN  /\ generator = child.gen
            /\ err = child.err
            /\ result # Nil =>
                  LET r == Generate(child.gen, result.draws)
                  IN  result.st = r.st /\ result.out = r.out
            /\ (result # Nil /\ pattern.Sub[1] = LitABC) =>
                  (Returned /\ result.out = <<97, 98, 99>>)
            /\ (result # Nil /\ pattern.Sub[1] = Leaf("EmptyMatch")) =>
                  (Returned /\ result.out = <<>>)

\* "(abc)" has generated "abc"
C12_Witness ==
    /\ pattern = Unary("Capture", LitABC)
    /\ Returned
    /\ result.out = <<97, 98, 99>>

\* the nodes that match the empty string only
ZeroWidthOps ==
    {"EmptyMatch", "BeginLine", "EndLine", "BeginText", "EndText",
     "WordBoundary", "NoWordBoundary"}

\* ^abc$, $abc^ and a^b$c
AnchoredABC ==
    {Nary("Concat", <<Leaf("BeginLine"), LitABC, Leaf("EndLine")>>),
     Nary("Concat", <<Leaf("EndLine"), LitABC, Leaf("BeginLine")>>),
     Nary("Concat", <<LitA, Leaf("BeginLine"), Lit(<<98>>), Leaf("EndLine"),
                      Lit(<<99>>)>>)}

\* C13: an empty-match, begin/end-line, begin/end-text or word-boundary node
\* compiles, without error, to a generator that always returns the empty
\* string and asks the source for nothing, wherever the node stands: "^abc$",
\* "$abc^" and "a^b$c" compile and always generate "abc".
C13_ZeroWidthGeneratesNothing ==
    ((pattern.Op \in ZeroWidthOps \/ pattern \in AnchoredABC)
        /\ ~UnicodeGroupsWithoutPerl(flags) /\ phase # "new") =>
        /\ phase = "ready" /\ err = ""
        /\ result # Nil =>
              /\ Returned
              /\ result.draws = <<>>
              /\ result.out = IF pattern \in AnchoredABC THEN <<97, 98, 99>> ELSE <<>>

\* "a^b$c" has generated "abc"
C13_Witness ==
    /\ pattern = Nary("Concat", <<LitA, Leaf("BeginLine"), Lit(<<98>>),
                                  Leaf("EndLine"), Lit(<<99>>)>>)
    /\ Returned
    /\ result.out = <<97, 98, 99>>

\* C14: NewGenerator called with the UnicodeGroups flag set and the Perl flag
\* not (wholly) set returns an error and no generator, whatever the pattern,
\* the empty pattern included; with all of Perl set, or with UnicodeGroups
\* unset, the call is not rejected for this reason.
C14_UnicodeGroupsNeedsPerl ==
    phase # "new" =>
        IF "UnicodeGroups" \in flags /\ ~(Perl \subseteq flags)
        THEN phase = "error" /\ generator = Nil /\ result = Nil
                /\ err = "UnicodeGroups not supported"
        ELSE err # "UnicodeGroups not supported"

\* the empty pattern has been rejected for the UnicodeGroups flag alone
C14_Witness ==
    /\ pattern = Leaf("EmptyMatch")
    /\ flags = {"UnicodeGroups"}
    /\ phase = "error"
    /\ err = "UnicodeGroups not supported"

RECURSIVE HasNoMatch(_)
\* some node of the tree is an OpNoMatch
HasNoMatch(re) ==
    re.Op = "NoMatch" \/ \E i \in DOMAIN re.Sub : HasNoMatch(re.Sub[i])

RECURSIVE HasCompiledNoMatch(_)
\* some node of the tree is an OpNoMatch and does not stand below an x{0}
HasCompiledNoMatch(re) ==
    \/ re.Op = "NoMatch"
    \/ /\ ~(re.Op = "Repeat" /\ re.Min = 0 /\ re.Max = 0)
       /\ \E i \in DOMAIN re.Sub : HasCompiledNoMatch(re.Sub[i])

\* NewGenerator has returned an error and no generator
CompileFailed == phase = "error" /\ generator = Nil /\ err # "" /\ result = Nil

C16_OddLengthFails ==
    (ccClass # Nil /\ Len(ccRunes) % 2 = 1) => ~ccClass.ok

\* C17: ParseCharClass panics whenever some pair's size end - start + 1,
\* taken after a start of 0 has become 1, is less than 1; whenever it
\* returns, every range of the class has Start >= 1 and Size >= 1.
C17_SizeBelowOnePanics ==
    ccClass # Nil =>
        /\ (\E k \in 1..(Len(ccRunes) \div 2) : PairEnd(k) - PairStart(k) + 1 < 1)
              => (~ccClass.ok /\ ccClass.panic # "")
        /\ ccClass.ok =>
              \A k \in 1..Len(ccClass.v.Ranges) :
                  ccClass.v.Ranges[k].Start >= 1 /\ ccClass.v.Ranges[k].Size >= 1

\* ParseCharClass has panicked on the pair (0, 0), of size 0 once its start
\* is 1, that follows a well-formed pair
C17_Witness ==
    /\ ccRunes = <<1, 3, 0, 0>>
    /\ ccClass # Nil /\ ~ccClass.ok
    /\ ccClass.panic = "char class range size must be at least 1"

\* C18: a xorshift source constructed with seed 0 does not give the
\* all-zero stream: the constructor makes the state 1, the state never
\* becomes 0, and the Int63() values drawn from it are not all zero.
C18_ZeroSeedIsNotAllZero ==
    (srcSeed = [by |-> "newXorShift64Source", seed |-> {}]) =>
        /\ drawn = <<>> => state = SeedOne
        /\ state # {}
        /\ drawn # <<>> => \E i \in DOMAIN drawn : drawn[i] # {}

\* MaxCalls values have been drawn from a source constructed with seed 0
C18_Witness ==
    /\ srcSeed = [by |-> "newXorShift64Source", seed |-> {}]
    /\ Len(drawn) = MaxCalls
    /\ \E i \in DOMAIN drawn : drawn[i] # {}

\* C19: every value Int63() returns is non-negative and below 2^63,
\* whatever the state: bit 63 of it is 0 (the product wraps modulo 2^64 and
\* is shifted right by one).
C19_Int63IsNonNegative ==
    \A i \in DOMAIN drawn : drawn[i] \subseteq 0..62

\* Int63() has returned a value of 2^62 or more, on a state with bit 63 set
C19_Witness ==
    /\ 63 \in state
    /\ drawn # <<>>
    /\ 62 \in drawn[Len(drawn)]

\* C20: with the fork-join executor the source is wrapped in a lockedSource,
\* and a goroutine that has loaded the state of the source and not yet
\* stored it all back holds the mutex (so at most one goroutine is there at
\* a time); with the serial executor PrepareSource returns the source it was
\* given, unwrapped, and no mutex is ever taken.
C20_ForkJoinLocksTheSource ==
    /\ (rng # Nil /\ executor = "forkJoin") =>
          /\ rng = [kind |-> "lockedSource", src |-> XorShiftSource]
          /\ \A t \in Goroutines : conc[t].pc \in {"load", "store"} => lk = t
    /\ (rng # Nil /\ executor = "serial") =>
          /\ rng = XorShiftSource
          /\ lk = 0

\* under the fork-join executor one goroutine is storing the state, holding
\* the mutex, while the other has a value to ask for and waits for the mutex
C20_Witness ==
    /\ executor = "forkJoin"
    /\ conc[1].pc = "store" /\ lk = 1
    /\ conc[2].pc = "run"
    /\ Generate(generator, conc[2].got).st = "more"

\* C21: Generate() terminates under both strategies: with the goroutines
\* scheduled fairly, every Execute eventually has all its generators'
\* results, passes its join barrier and returns.
C21_ExecuteReturns == <>(result # Nil)

\* the values the source has returned, as rand.Rand.Int31 hands them on
DrawnInt31 == [i \in DOMAIN drawn |-> Int31OfInt63(drawn[i])]

\* the Generate() calls of Execute, by index, that have started
Started == {t \in Goroutines : conc[t].pc # "idle"}

\* C22: the serial executor invokes the generators one at a time in index
\* order on the caller's goroutine: call i+1 starts only after call i has
\* returned, so the calls take consecutive stretches of the source's values,
\* and Execute returns the results appended in index order; the Concat
\* generator does the same with its children.
C22_SerialInIndexOrder ==
    (executor = "serial" /\ rng # Nil) =>
        /\ \A t \in Started : \A u \in Goroutines : u < t => conc[u].pc = "done"
        /\ Cardinality({t \in Goroutines : conc[t].pc \notin {"idle", "done"}}) <= 1
        /\ DrawnInt31 = conc[1].got \o conc[2].got
        /\ result # Nil =>
              result.out = conc[1].res.out \o conc[2].res.out
        /\ \A t \in Goroutines :
              (pattern = Nary("Concat", <<ClassAB, ClassAB>>) /\ conc[t].pc = "done") =>
                  conc[t].res.out = <<97 + (conc[t].got[1] % 2),
                                      97 + (conc[t].got[2] % 2)>>

\* the serial executor has returned two strings that differ, appended in
\* index order
C22_Witness ==
    /\ executor = "serial"
    /\ result # Nil
    /\ conc[1].res.out # conc[2].res.out
    /\ conc[1].res.out # <<>>
    /\ result.out = conc[1].res.out \o conc[2].res.out

\* C23: on every Generate() call of an alternate generator with k >= 1
\* branches exactly one branch generator is invoked, its index i lies in
\* 0..k-1, the call returns what that branch returned, and no other branch
\* runs or draws: the values drawn are those of the choice of i followed by
\* those of branch i, and the closures that ran are those of branch i.
C23_AlternateRunsOneBranch ==
    (phase = "ready" /\ generator.kind = "alternate" /\ Returned) =>
        LET k      == Len(pattern.Sub)
            ev     == result.log[1]
            choice == Intn(k, result.draws)
            branch == Generate(newGenerator(pattern.Sub[ev.i + 1]).gen, choice.ds)
        IN  /\ k >= 1 /\ generator.numGens = k
            /\ Cardinality({j \in DOMAIN result.log :
                               result.log[j].node = "alternate"}) = 1
            /\ ev.node = "alternate"
            /\ ev.i \in 0..(k - 1)
            /\ choice.st = "ok" /\ choice.v = ev.i
            /\ branch.st = "ok"
            /\ branch.ds = <<>>
            /\ result.out = branch.out
            /\ result.log = <<ev>> \o branch.log

\* a|[ab]|(abc)? has taken its second branch, which drew one value
C23_Witness ==
    /\ pattern = Nary("Alternate", <<LitA, ClassAB, Unary("Quest", LitABC)>>)
    /\ Returned
    /\ result.log[1].i = 1
    /\ Len(result.log) = 2
    /\ result.out \in {<<97>>, <<98>>}

RECURSIVE IsMerge(_, _, _)
\* c is a and b interleaved: every element of c comes from a or from b, each
\* of them used once and in its order
IsMerge(a, b, c) ==
    IF c = <<>> THEN a = <<>> /\ b = <<>>
    ELSE \/ a # <<>> /\ Head(a) = Head(c) /\ IsMerge(Tail(a), b, Tail(c))
         \/ b # <<>> /\ Head(b) = Head(c) /\ IsMerge(a, Tail(b), Tail(c))

\* src.state right after the source was constructed or last seeded
SeededState ==
    IF srcSeed.by = "Seed" THEN srcSeed.seed ELSE newXorShift64Source(srcSeed.seed)

\* C24: lockedSource serialises access to the source it wraps: at most one
\* goroutine at a time is inside the wrapped Int63 or Seed, a goroutine holds
\* the mutex exactly while it is between Lock and Unlock (so it has released
\* it when its call returns), and the Int63() calls made since the source
\* was seeded have returned exactly the first values of the source's
\* sequential stream, each value to one caller, the state being the one the
\* same number of sequential calls leave.
C24_LockedSourceSerialises ==
    /\ Cardinality({t \in Goroutines : conc[t].pc \in {"load", "store", "seed"}}) <= 1
    /\ \A t \in Goroutines :
          lk = t <=> conc[t].pc \in {"load", "store", "seed", "unlock"}
    /\ drawn = SourceStream(SeededState, Len(drawn))
    /\ IsMerge(conc[1].got, conc[2].got, drawn)
    /\ lk = 0 => state = StateAfter(SeededState, Len(drawn))

\* four Int63() calls by two goroutines have returned the first four values
\* of the stream, the goroutines taking turns
C24_Witness ==
    /\ Len(drawn) = 4
    /\ lk = 0
    /\ conc[1].got = <<drawn[1], drawn[3]>>
    /\ conc[2].got = <<drawn[2], drawn[4]>>

\* both goroutines are through their first Int63() and in no other
FirstInt63Returned ==
    \A t \in Goroutines : conc[t].pc \in {"run", "done"} /\ Len(conc[t].got) = 1

\* C25: the xorshift source without a lock is unsafe for concurrent use: two
\* Int63() calls that computed from the same loaded src.state return the same
\* value and store the same state, so that one update is lost; calls that
\* did not load the same state are one after the other in the stream (on a
\* build that loads and stores src.state whole).
C25_RacingCallsReturnSameValue ==
    FirstInt63Returned =>
        /\ conc[1].x = conc[2].x =>
              /\ conc[1].got = conc[2].got
              /\ state = conc[1].x
        /\ (wordBits = 64 /\ conc[1].x # conc[2].x) =>
              \E t, u \in Goroutines :
                  /\ conc[u].x = xorShift(conc[t].x)
                  /\ state = conc[u].x

\* two calls on the generator of [ab] have returned, each after one Int63(),
\* and both Int63() returned the same value
C25_Witness ==
    /\ pattern = ClassAB
    /\ \A t \in Goroutines : conc[t].pc = "done" /\ Len(conc[t].got) = 1
    /\ conc[1].x = conc[2].x
    /\ conc[1].got = conc[2].got
    /\ conc[1].res.out = conc[2].res.out

\* the values of a sequence, each with the number of times it occurs
BagOfSeq(s) ==
    [v \in {s[i] : i \in DOMAIN s} |-> Cardinality({i \in DOMAIN s : s[i] = v})]

\* what the Execute call of the present generator returned, as runs keeps it
ThisRun ==
    [out |-> result.out,
     outs |-> [t \in Goroutines |-> conc[t].res.out],
     gots |-> [t \in Goroutines |-> conc[t].got],
     drawn |-> drawn,
     state |-> state]

\* C26: under fork-join a fixed seed does not fix the output.  Two generators
\* made from the same arguments draw the same multiset of values from their
\* mutex-guarded sources and leave them in the same state, whatever the
\* interleaving of their tasks; the outputs of the two differ exactly through
\* the order in which the tasks drew, a task's string being what Generate()
\* makes of the values it got.
C26_ForkJoinSameValuesOtherOrder ==
    (executor = "forkJoin" /\ result # Nil) =>
        \A i \in DOMAIN runs :
            /\ BagOfSeq(runs[i].drawn) = BagOfSeq(drawn)
            /\ runs[i].state = state
            /\ BagOfSeq(runs[i].gots[1] \o runs[i].gots[2])
                  = BagOfSeq(conc[1].got \o conc[2].got)
            /\ runs[i].gots = ThisRun.gots => runs[i].out = result.out
            /\ runs[i].out # result.out => runs[i].gots[1] # conc[1].got
            /\ \A t \in Goroutines :
                  ThisRun.outs[t] = Generate(generator, conc[t].got).out

\* two generators of [ab] with the same seed: the tasks of the first drew in
\* index order, those of the second in the other order, and the outputs differ
C26_Witness ==
    /\ executor = "forkJoin" /\ result # Nil
    /\ pattern = ClassAB
    /\ Len(runs) = 1
    /\ runs[1].gots[1] = <<DrawnInt31[1]>> /\ runs[1].gots[2] = <<DrawnInt31[2]>>
    /\ conc[2].got = <<DrawnInt31[1]>> /\ conc[1].got = <<DrawnInt31[2]>>
    /\ runs[1].out # result.out
    /\ BagOfSeq(runs[1].drawn) = BagOfSeq(drawn)

\* C27: under the serial executor generation is deterministic: generators
\* made from the same pattern, flags and seed return the same string from
\* every corresponding Generate() call, draw the same values in the same
\* order and leave their sources in the same state.
C27_SerialIsDeterministic ==
    (executor = "serial" /\ result # Nil) =>
        \A i \in DOMAIN runs : runs[i] = ThisRun

\* two generators of [ab][ab] with the same seed have each run Execute, every
\* Generate() call drawing two values
C27_Witness ==
    /\ executor = "serial" /\ result # Nil
    /\ pattern = Nary("Concat", <<ClassAB, ClassAB>>)
    /\ Len(runs) = 1
    /\ Len(drawn) = 4
    /\ Len(result.out) = 4
    /\ runs[1].out = result.out
    /\ runs[1].state = state

\* C28: the state of the xorshift source is never 0, however the source was
\* constructed or seeded and however many values were drawn from it.
C28_StateIsNeverZero ==
    state # {}

C30_GenerateChangesNoTree ==
    /\ [][phase = "ready" =>
             /\ generator' = generator
             /\ pattern' = pattern /\ flags' = flags /\ err' = err
             /\ executor' = executor /\ rng' = rng]_vars
    /\ [](result # Nil => generator = newGenerator(pattern).gen)

\* the generator of [ab] has drawn a value and returned, its class as it was
\* parsed
C30_Witness ==
    /\ pattern = ClassAB
    /\ Returned /\ result.draws # <<>>
    /\ generator.kind = "charClass"
    /\ generator.class = ParseCharClass(<<97, 98>>).v

====
